---- MODULE Spec2Model ----
(***************************************************************************)
(* Quota-guarded bulk send pipeline of the bulk email sender.              *)
(*                                                                         *)
(* The server is one Node.js process: code between two awaits runs         *)
(* without interleaving, so every action below is one such synchronous     *)
(* segment of a POST /api/emails/send request:                             *)
(*   quotaGuard up to the await of the provider probe,                     *)
(*   the rest of quotaGuard plus the route handler up to the first         *)
(*   provider send,                                                        *)
(*   the continuation after a provider send returns (record insert),       *)
(*   the continuation after the 100 ms delay (next send, or the response). *)
(***************************************************************************)
EXTENDS Integers, Sequences, FiniteSets, TLC

\* ------------------------------------------------------------------ bounds
MaxRequests == 2        \* send requests that arrive in one behaviour
MaxIds == 2             \* longest submitted contactIds array
MaxDay == 2             \* UTC calendar days the clock runs through
MaxLimit == 2           \* largest DAILY_EMAIL_LIMIT setting tried
MaxProbe == 2           \* largest remaining capacity the provider reports
MaxClients == 1         \* client IP addresses
MaxSessions == 2        \* browser sessions
MaxOpens == 3           \* tracking-pixel requests that arrive in one behaviour
MaxUsed == 2            \* counter values tried next to 0 and next to the limit
MaxOverLimit == 2       \* requests counted by the rate limiter beyond maxRequests
MaxAuthSends == 1       \* send requests in a behaviour of the session specification
MaxAuthOpens == 1       \* tracking requests in a behaviour of the session specification
MaxTextLen == 3         \* longest subject or body, in lexical units

\* ------------------------------------------------------- program constants
DefaultDailyLimit == 250
\* milliseconds in a minute: (now - sentTime) / 1000 / 60
MinuteMs == 60000
\* app.use(rateLimiter(60000, 100))
windowMs == 60000
maxRequests == 100
\* opens in the first 3 minutes after the send are taken for pre-scans
PreScanMinutes == 3
\* a second open of the same email from the same ip within 5 minutes is a
\* duplicate
DuplicateMinutes == 5

\* --------------------------------------------------------------- universes
Requests == 1..MaxRequests
Days == 1..MaxDay
Clients == 1..MaxClients
Sessions == 1..MaxSessions
OpenRequests == 1..MaxOpens

\* the instants the clock of the rate limiter runs through: a first request,
\* the last millisecond of the window it opens, and the millisecond after
RateInstants == {0, windowMs, windowMs + 1}

\* rows of the contacts table at start (ids 1 and 2); id 3 is an id that no
\* longer resolves
ContactRows == {1, 2}
ContactIdSpace == 1..3

\* contactIds arrays a client submits.  The SELECT ... IN of the handler does
\* not depend on the order of the ids, so the arrays are taken non-decreasing.
IdLists ==
    {ids \in UNION {[1..n -> ContactIdSpace] : n \in 0..MaxIds} :
        \A i \in DOMAIN ids : i > 1 => ids[i - 1] <= ids[i]}

\* DAILY_EMAIL_LIMIT: <<>> when the variable is absent or not numeric
\* (parseInt gives NaN), <<n>> when it parses to n
LimitSettings == {<<>>} \cup {<<n>> : n \in {0} \cup (2..MaxLimit)}

\* subject and body texts: empty, blank, and a template
Template == "Hi {first_name}"
Texts == {"", " ", Template}

\* request bodies of POST /api/emails/send; hasIds is FALSE when the body
\* has no contactIds field; at most one of subject and body is not a text
SendBodies ==
    {b \in [hasIds : BOOLEAN, contactIds : IdLists, subject : Texts, body : Texts] :
        /\ ~b.hasIds => b.contactIds = <<>>
        /\ b.subject = Template \/ b.body = Template}

\* provider probe: <<>> when getSESQuota failed, <<k>> when it reports k
\* remaining in the 24 hour window
ProbeResults == {<<>>} \cup {<<k>> : k \in 0..MaxProbe}

VARIABLES
    DAILY_EMAIL_LIMIT,  \* process.env.DAILY_EMAIL_LIMIT
    SES_FROM_EMAIL,     \* TRUE iff process.env.SES_FROM_EMAIL is set
    today,              \* the UTC calendar day of the clock
    daily_quota,        \* table daily_quota: date -> emails_sent (rows only)
    campaigns,          \* table campaigns: number of rows (ids 1..campaigns)
    sent_emails,        \* table sent_emails, in rowid order
    req,                \* per request: position and local variables
    hist,               \* per request: how its reserveQuota call ended
    log,                \* per request: provider calls and record writes, in order
    reservedOn,         \* per day: sum of the counts of successful reserveQuota calls
    sendsOn,            \* per day: provider send calls started on that day
    resp,               \* the response of the last request answered in one step
    now,                \* Date.now(), in milliseconds
    requestCounts,      \* rateLimiter's Map: ip -> <<>> or <<[count, startTime]>>
    passed,             \* per ip and instant: requests the rate limiter passed on
    session,            \* per browser session: req.session.user and the last auth call
    contacts,           \* table contacts: the ids of its rows
    email_opens,        \* table email_opens, as the set of its rows
    opens,              \* per tracking request: position and local variables
    personalize         \* one text and one contact, and what personalization made of them

\* the state outside the send pipeline
server == <<resp, now, requestCounts, passed, session, contacts, email_opens, opens>>
web == <<server, personalize>>

\* the state of the send pipeline
pipeline == <<DAILY_EMAIL_LIMIT, SES_FROM_EMAIL, today, daily_quota, campaigns,
              sent_emails, req, hist, log, reservedOn, sendsOn>>

vars == <<DAILY_EMAIL_LIMIT, SES_FROM_EMAIL, today, daily_quota, campaigns,
          sent_emails, req, hist, log, reservedOn, sendsOn, web>>

\* ------------------------------------------------------------ pure helpers
RECURSIVE SortedSeq(_)
SortedSeq(S) ==
    IF S = {} THEN <<>>
    ELSE LET m == CHOOSE x \in S : \A y \in S : x <= y
         IN <<m>> \o SortedSeq(S \ {m})

RECURSIVE SumOver(_, _)
SumOver(S, f) ==
    IF S = {} THEN 0
    ELSE LET x == CHOOSE y \in S : TRUE
         IN f[x] + SumOver(S \ {x}, f)

\* parseInt(process.env.DAILY_EMAIL_LIMIT) || 250
DailyLimit ==
    IF DAILY_EMAIL_LIMIT = <<>> THEN DefaultDailyLimit
    ELSE IF DAILY_EMAIL_LIMIT[1] = 0 THEN DefaultDailyLimit
    ELSE DAILY_EMAIL_LIMIT[1]

\* mutant: the lookup is not keyed by the date (it sums every row)
getDailyEmailCount_anyDay(d) == SumOver(DOMAIN daily_quota, daily_quota)

\* mutant: the lookup misses the row of the day (always "no row yet")
getDailyEmailCount_noRow(d) == 0

\* SELECT emails_sent FROM daily_quota WHERE date = d; 0 when there is no row
getDailyEmailCount(d) ==
    IF d \in DOMAIN daily_quota THEN daily_quota[d] ELSE 0

\* mutant: the upsert overwrites emails_sent instead of adding to it
incrementDailyCount_overwrite(d, count) ==
    [x \in DOMAIN daily_quota \cup {d} |-> IF x = d THEN count ELSE daily_quota[x]]

\* INSERT ... ON CONFLICT(date) DO UPDATE SET emails_sent = emails_sent + count
incrementDailyCount(d, count) ==
    IF d \in DOMAIN daily_quota
    THEN [daily_quota EXCEPT ![d] = @ + count]
    ELSE [x \in DOMAIN daily_quota \cup {d} |->
             IF x = d THEN count ELSE daily_quota[x]]

\* mutant: the comparison with the requested count is lost
canSendEmails_nocheck(d, requestedCount) ==
    [canSend |-> TRUE,
     currentCount |-> getDailyEmailCount(d),
     limit |-> DailyLimit,
     remaining |-> DailyLimit - getDailyEmailCount(d),
     requestedCount |-> requestedCount]

\* canSendEmails(requestedCount), evaluated on day d
canSendEmails(d, requestedCount) ==
    LET limit == DailyLimit
        currentCount == getDailyEmailCount(d)
        remaining == limit - currentCount
    IN [canSend |-> remaining >= requestedCount,
        currentCount |-> currentCount,
        limit |-> limit,
        remaining |-> remaining,
        requestedCount |-> requestedCount]

\* mutant: the reported capacity is not compared with the requested count
checkSESCapacity_noCompare(p, requestedCount) ==
    [canSend |-> TRUE, warning |-> p = <<>>, awsQuota |-> p]

\* mutant: a failed probe blocks
checkSESCapacity_failClosed(p, requestedCount) ==
    IF p = <<>>
    THEN [canSend |-> FALSE, warning |-> TRUE, awsQuota |-> <<>>]
    ELSE [canSend |-> p[1] >= requestedCount, warning |-> FALSE, awsQuota |-> p]

\* checkSESCapacity(requestedCount) for a probe result p
checkSESCapacity(p, requestedCount) ==
    IF p = <<>>
    THEN [canSend |-> TRUE, warning |-> TRUE, awsQuota |-> <<>>]
    ELSE [canSend |-> p[1] >= requestedCount, warning |-> FALSE, awsQuota |-> p]

\* req.body.contacts?.length || req.body.contactIds?.length || 1
\* (no client of this application sends a contacts field)
RequestedCount(hasIds, ids) ==
    IF hasIds /\ Len(ids) # 0 THEN Len(ids) ELSE 1

\* Math.min
Min(a, b) == IF a <= b THEN a ELSE b

\* sesCapacity.awsQuota?.remaining || localRemaining: the right operand is
\* taken when there is no awsQuota and when its remaining is 0
ProviderRemainingOr(p, localRemaining) ==
    IF p = <<>> THEN localRemaining
    ELSE IF p[1] = 0 THEN localRemaining
    ELSE p[1]

\* mutant: the decision is the provider's alone
validateSendRequest_providerOnly(localRemaining, p, requestedCount) ==
    LET ses == checkSESCapacity(p, requestedCount)
    IN [canSend |-> ses.canSend,
        reasons |-> IF ses.canSend THEN {} ELSE {"AWS_QUOTA_EXCEEDED"},
        warning |-> ses.warning,
        warnings |-> IF ses.warning THEN {"AWS_UNVERIFIED"} ELSE {},
        requestedCount |-> requestedCount,
        availableCount |-> Min(localRemaining, ProviderRemainingOr(p, localRemaining))]

\* the part of validateSendRequest after the probe returned: canSend, the
\* deny reasons, the warnings and availableCount, from the local snapshot
\* taken before the await
validateSendRequest(localRemaining, p, requestedCount) ==
    LET localCanSend == localRemaining >= requestedCount
        ses == checkSESCapacity(p, requestedCount)
    IN [canSend |-> localCanSend /\ ses.canSend,
        reasons |-> (IF localCanSend THEN {} ELSE {"LOCAL_QUOTA_EXCEEDED"})
                    \cup (IF ses.canSend THEN {} ELSE {"AWS_QUOTA_EXCEEDED"}),
        warning |-> ses.warning,
        warnings |-> (IF ses.warning THEN {"AWS_UNVERIFIED"} ELSE {})
                     \cup (IF localRemaining < 50 /\ localRemaining > requestedCount
                           THEN {"LOW_QUOTA"} ELSE {}),
        requestedCount |-> requestedCount,
        availableCount |-> Min(localRemaining, ProviderRemainingOr(p, localRemaining))]

\* getQuotaStatus(), with the counter read on day d and probe result p
getQuotaStatus(d, p) ==
    LET dailyLimit == DailyLimit
        localCount == getDailyEmailCount(d)
        localRemaining == dailyLimit - localCount
        ses == checkSESCapacity(p, 1)
    IN [local |-> [limit |-> dailyLimit, used |-> localCount,
                   remaining |-> localRemaining],
        aws |-> ses.awsQuota,
        awsWarning |-> ses.warning,
        canSend |-> localRemaining > 0 /\ ses.canSend,
        effectiveRemaining |-> Min(localRemaining, ProviderRemainingOr(p, localRemaining))]

\* s.trim(), on the texts of Texts
Trim(s) == IF s = " " THEN "" ELSE s

\* SELECT * FROM contacts WHERE id IN (...): the rows whose id occurs in the
\* list, each once, in rowid order
Resolve(ids) == SortedSeq({ids[i] : i \in DOMAIN ids} \cap contacts)

\* ------------------------------------------------------------------- state
NoResults == [totalRequested |-> 0, successful |-> 0, failed |-> 0]

IdleReq ==
    [pc |-> "idle", hasIds |-> FALSE, contactIds |-> <<>>,
     subject |-> "", body |-> "",
     requestedCount |-> 0, localRemaining |-> 0,
     contacts |-> <<>>, idx |-> 0, campaignId |-> 0,
     successful |-> <<>>, failed |-> <<>>,
     status |-> 0, error |-> "", details |-> "", reasons |-> {},
     results |-> NoResults]

\* "none", "reserved", "rejected" (canSendEmails said no) or "threw" (the
\* store threw)
NoHist == "none"

\* no response yet
NoResp == [endpoint |-> "", status |-> 0, error |-> ""]

\* a browser session without a logged-in user that made no auth call yet
\* (last: how the session came to be as it is: "none", "login", "logout",
\* or "failed" when it has no user and its last login was refused)
NoSession == [user |-> <<>>, last |-> "none"]

\* a tracking request that has not arrived
IdleOpen == [pc |-> "idle", trackingId |-> <<>>, ip |-> 0, answers |-> <<>>, outcome |-> ""]

\* no text is being personalized
NoPersonalize == [text |-> <<>>, contact |-> <<>>, sent |-> <<>>, again |-> <<>>, preview |-> <<>>]

\* the state of the server outside the send pipeline when it has started
ServerInit ==
    /\ resp = NoResp
    /\ now = 0
    /\ requestCounts = [ip \in Clients |-> <<>>]
    /\ passed = [ip \in Clients |-> [t \in RateInstants |-> 0]]
    /\ session = [s \in Sessions |-> NoSession]
    /\ contacts = ContactRows
    /\ email_opens = {}
    /\ opens = [o \in OpenRequests |-> IdleOpen]

\* the state outside the send pipeline when the server has started
WebInit ==
    /\ ServerInit
    /\ personalize = NoPersonalize

Init ==
    /\ DAILY_EMAIL_LIMIT \in LimitSettings
    /\ SES_FROM_EMAIL \in BOOLEAN
    /\ today = 1
    /\ daily_quota = <<>>
    /\ campaigns = 0
    /\ sent_emails = <<>>
    /\ req = [r \in Requests |-> IdleReq]
    /\ hist = [r \in Requests |-> NoHist]
    /\ log = [r \in Requests |-> <<>>]
    /\ reservedOn = [d \in Days |-> 0]
    /\ sendsOn = [d \in Days |-> 0]
    /\ WebInit

\* error.message of an exception thrown by a database statement
DbError == "SQLITE_ERROR"
\* error.message of the exception sendEmail throws without a sender address
NoSenderError == "SES_FROM_EMAIL not configured in environment"
\* error.message of the exception reserveQuota throws
NoQuotaError == "Cannot reserve quota"

\* res.status(code).json({error: ..., details or message: ...}) and return: the request is over, and
\* its body and the guard's snapshot are dropped with it
Respond(r, code, err, details) ==
    [req[r] EXCEPT !.pc = "done", !.status = code, !.error = err, !.details = details,
                   !.hasIds = FALSE, !.contactIds = <<>>, !.subject = "", !.body = "",
                   !.localRemaining = 0]

\* --------------------------------------------------------------- the clock
\* UTC midnight passes
Tick ==
    /\ today < MaxDay
    /\ today' = today + 1
    /\ UNCHANGED <<web, DAILY_EMAIL_LIMIT, SES_FROM_EMAIL, daily_quota, campaigns,
                   sent_emails, req, hist, log, reservedOn, sendsOn>>

\* ------------------------------------------------ quotaGuard, first segment
\* A request arrives (requests are numbered in arrival order).  quotaGuard
\* computes requestedCount, validateSendRequest reads the local quota and
\* then awaits the provider probe.
QuotaGuardFirst(r, b) ==
    LET n == RequestedCount(b.hasIds, b.contactIds)
    IN [req[r] EXCEPT !.pc = "probe", !.hasIds = b.hasIds,
                      !.contactIds = b.contactIds,
                      !.subject = b.subject, !.body = b.body,
                      !.requestedCount = n,
                      !.localRemaining = canSendEmails(today, n).remaining]

QuotaGuardEnter(r) ==
    /\ req[r].pc = "idle"
    /\ \A q \in Requests : q < r => req[q].pc # "idle"
    /\ \E b \in SendBodies : req' = [req EXCEPT ![r] = QuotaGuardFirst(r, b)]
    /\ UNCHANGED <<web, DAILY_EMAIL_LIMIT, SES_FROM_EMAIL, today, daily_quota, campaigns,
                   sent_emails, hist, log, reservedOn, sendsOn>>

\* The same, but the read of daily_quota throws: the catch of quotaGuard
\* answers 500 QUOTA_CHECK_FAILED.
QuotaGuardStoreError(r) ==
    /\ req[r].pc = "idle"
    /\ \A q \in Requests : q < r => req[q].pc # "idle"
    /\ req' = [req EXCEPT ![r] = Respond(r, 500, "QUOTA_CHECK_FAILED", DbError)]
    /\ UNCHANGED <<web, DAILY_EMAIL_LIMIT, SES_FROM_EMAIL, today, daily_quota, campaigns,
                   sent_emails, hist, log, reservedOn, sendsOn>>

\* ---------------------------- quotaGuard after the probe, and the handler
\* the guard lets the request through for probe result p
GuardPasses(r, p) ==
    /\ req[r].pc = "probe"
    /\ validateSendRequest(req[r].localRemaining, p, req[r].requestedCount).canSend

\* the probe returned and validation.canSend is false: 429 QUOTA_EXCEEDED
GuardDeny(r) ==
    /\ req[r].pc = "probe"
    /\ \E p \in ProbeResults :
          LET v == validateSendRequest(req[r].localRemaining, p, req[r].requestedCount)
          IN /\ ~v.canSend
             /\ req' = [req EXCEPT ![r] =
                    [Respond(r, 429, "QUOTA_EXCEEDED", "") EXCEPT !.reasons = v.reasons]]
    /\ UNCHANGED <<web, DAILY_EMAIL_LIMIT, SES_FROM_EMAIL, today, daily_quota, campaigns,
                   sent_emails, hist, log, reservedOn, sendsOn>>

\* !contactIds || !Array.isArray(contactIds) || contactIds.length === 0
NoContactIds(r) == ~req[r].hasIds \/ Len(req[r].contactIds) = 0
\* !subject || !subject.trim()
NoSubject(r) == req[r].subject = "" \/ Trim(req[r].subject) = ""
\* !body || !body.trim()
NoBody(r) == req[r].body = "" \/ Trim(req[r].body) = ""

\* the handler's validation, in its order
RejectNoContactIds(r) ==
    /\ \E p \in ProbeResults : GuardPasses(r, p)
    /\ NoContactIds(r)
    /\ req' = [req EXCEPT ![r] = Respond(r, 400, "Please select at least one contact", "")]
    /\ UNCHANGED <<web, DAILY_EMAIL_LIMIT, SES_FROM_EMAIL, today, daily_quota, campaigns,
                   sent_emails, hist, log, reservedOn, sendsOn>>

RejectNoSubject(r) ==
    /\ \E p \in ProbeResults : GuardPasses(r, p)
    /\ ~NoContactIds(r)
    /\ NoSubject(r)
    /\ req' = [req EXCEPT ![r] = Respond(r, 400, "Email subject is required", "")]
    /\ UNCHANGED <<web, DAILY_EMAIL_LIMIT, SES_FROM_EMAIL, today, daily_quota, campaigns,
                   sent_emails, hist, log, reservedOn, sendsOn>>

RejectNoBody(r) ==
    /\ \E p \in ProbeResults : GuardPasses(r, p)
    /\ ~NoContactIds(r)
    /\ ~NoSubject(r)
    /\ NoBody(r)
    /\ req' = [req EXCEPT ![r] = Respond(r, 400, "Email body is required", "")]
    /\ UNCHANGED <<web, DAILY_EMAIL_LIMIT, SES_FROM_EMAIL, today, daily_quota, campaigns,
                   sent_emails, hist, log, reservedOn, sendsOn>>

\* the request passed the guard and the three field checks
Validated(r) ==
    /\ \E p \in ProbeResults : GuardPasses(r, p)
    /\ ~NoContactIds(r)
    /\ ~NoSubject(r)
    /\ ~NoBody(r)

\* mutant: quota is reserved for contactIds.length before the ids are resolved
RejectNoValidContacts_reserveFirst(r) ==
    /\ Validated(r)
    /\ Resolve(req[r].contactIds) = <<>>
    /\ daily_quota' = incrementDailyCount(today, req[r].requestedCount)
    /\ req' = [req EXCEPT ![r] = Respond(r, 404, "No valid contacts found", "")]
    /\ UNCHANGED <<web, DAILY_EMAIL_LIMIT, SES_FROM_EMAIL, today, campaigns,
                   sent_emails, hist, log, reservedOn, sendsOn>>

\* contacts.length === 0: 404
RejectNoValidContacts(r) ==
    /\ Validated(r)
    /\ Resolve(req[r].contactIds) = <<>>
    /\ req' = [req EXCEPT ![r] = Respond(r, 404, "No valid contacts found", "")]
    /\ UNCHANGED <<web, DAILY_EMAIL_LIMIT, SES_FROM_EMAIL, today, daily_quota, campaigns,
                   sent_emails, hist, log, reservedOn, sendsOn>>

\* ------------------------------------------------------------- reserveQuota
\* reserveQuota(contacts.length) throws because canSendEmails says no: the
\* handler answers 429 QUOTA_RESERVATION_FAILED
ReservationRejected(r) ==
    /\ Validated(r)
    /\ Resolve(req[r].contactIds) # <<>>
    /\ ~canSendEmails(today, Len(Resolve(req[r].contactIds))).canSend
    /\ hist' = [hist EXCEPT ![r] = "rejected"]
    /\ req' = [req EXCEPT ![r] =
           [Respond(r, 429, "QUOTA_RESERVATION_FAILED", NoQuotaError)
               EXCEPT !.contacts = Resolve(req[r].contactIds)]]
    /\ UNCHANGED <<web, DAILY_EMAIL_LIMIT, SES_FROM_EMAIL, today, daily_quota, campaigns,
                   sent_emails, log, reservedOn, sendsOn>>

\* mutant: the handler goes on to the campaign insert when reserveQuota
\* throws on the store
ReservationStoreError_failOpen(r) ==
    /\ Validated(r)
    /\ Resolve(req[r].contactIds) # <<>>
    /\ hist' = [hist EXCEPT ![r] = "threw"]
    /\ campaigns' = campaigns + 1
    /\ req' = [req EXCEPT ![r] =
           [Respond(r, 429, "QUOTA_RESERVATION_FAILED", DbError)
               EXCEPT !.contacts = Resolve(req[r].contactIds)]]
    /\ UNCHANGED <<web, DAILY_EMAIL_LIMIT, SES_FROM_EMAIL, today, daily_quota,
                   sent_emails, log, reservedOn, sendsOn>>

\* reserveQuota throws because a statement on daily_quota throws: the same
\* catch, the same answer, nothing written
ReservationStoreError(r) ==
    /\ Validated(r)
    /\ Resolve(req[r].contactIds) # <<>>
    /\ hist' = [hist EXCEPT ![r] = "threw"]
    /\ req' = [req EXCEPT ![r] =
           [Respond(r, 429, "QUOTA_RESERVATION_FAILED", DbError)
               EXCEPT !.contacts = Resolve(req[r].contactIds)]]
    /\ UNCHANGED <<web, DAILY_EMAIL_LIMIT, SES_FROM_EMAIL, today, daily_quota, campaigns,
                   sent_emails, log, reservedOn, sendsOn>>

\* reserveQuota(contacts.length) succeeds.  canSendEmails and
\* incrementDailyCount each call getTodayDate: d2 is the date of the second
\* call, which is the next day when midnight falls between the two.
ReserveQuota(r, d2) ==
    /\ Validated(r)
    /\ Resolve(req[r].contactIds) # <<>>
    /\ d2 \in {today, today + 1} \cap Days
    /\ LET count == Len(Resolve(req[r].contactIds))
           validation == canSendEmails(today, count)
       IN /\ validation.canSend
          /\ daily_quota' = incrementDailyCount(d2, count)
          /\ reservedOn' = [reservedOn EXCEPT ![d2] = @ + count]
          /\ hist' = [hist EXCEPT ![r] = "reserved"]
    /\ today' = d2

\* --------------------------------------------- campaign row and first send
\* INSERT INTO campaigns throws after the reservation: outer catch, 500
CampaignInsertFails(r) ==
    /\ \E d2 \in Days : ReserveQuota(r, d2)
    /\ req' = [req EXCEPT ![r] =
           [Respond(r, 500, "Failed to send emails", DbError)
               EXCEPT !.contacts = Resolve(req[r].contactIds)]]
    /\ UNCHANGED <<web, DAILY_EMAIL_LIMIT, SES_FROM_EMAIL, campaigns, sent_emails, log, sendsOn>>

\* sendEmail throws for the first contact because SES_FROM_EMAIL is not set:
\* sendBulkEmails rejects, outer catch, 500
SenderNotConfigured(r) ==
    /\ \E d2 \in Days : ReserveQuota(r, d2)
    /\ ~SES_FROM_EMAIL
    /\ campaigns' = campaigns + 1
    /\ req' = [req EXCEPT ![r] =
           [Respond(r, 500, "Failed to send emails", NoSenderError)
               EXCEPT !.contacts = Resolve(req[r].contactIds), !.idx = 1,
                      !.campaignId = campaigns + 1,
                      !.results = [NoResults EXCEPT
                          !.totalRequested = Len(Resolve(req[r].contactIds))]]]
    /\ UNCHANGED <<web, DAILY_EMAIL_LIMIT, SES_FROM_EMAIL, sent_emails, log, sendsOn>>

\* mutant: the provider is called twice for the contact
CallProvider_twice(r, c, d) ==
    /\ log' = [log EXCEPT ![r] = @ \o <<[ev |-> "call", contact |-> c],
                                         [ev |-> "call", contact |-> c]>>]
    /\ sendsOn' = [sendsOn EXCEPT ![d] = @ + 2]

\* the provider send for contact c of request r starts
CallProvider(r, c, d) ==
    /\ log' = [log EXCEPT ![r] = Append(@, [ev |-> "call", contact |-> c])]
    /\ sendsOn' = [sendsOn EXCEPT ![d] = @ + 1]

\* reservation, campaign row, and sendBulkEmails up to the await of the
\* first provider send
StartDispatch(r) ==
    /\ SES_FROM_EMAIL
    /\ \E d2 \in Days :
          /\ ReserveQuota(r, d2)
          /\ CallProvider(r, Resolve(req[r].contactIds)[1], d2)
    /\ campaigns' = campaigns + 1
    /\ req' = [req EXCEPT ![r] =
           [@ EXCEPT !.pc = "sending",
                     !.hasIds = FALSE, !.contactIds = <<>>, !.localRemaining = 0,
                     !.contacts = Resolve(req[r].contactIds), !.idx = 1,
                     !.campaignId = campaigns + 1,
                     !.results = [NoResults EXCEPT
                         !.totalRequested = Len(Resolve(req[r].contactIds))]]]
    /\ UNCHANGED <<web, DAILY_EMAIL_LIMIT, SES_FROM_EMAIL, sent_emails>>

\* ------------------------------------------------------ the dispatch loop
\* mutant: the status column is left to its default, 'sent'
SentEmailRow_alwaysSent(r, ok) ==
    [campaign_id |-> req[r].campaignId,
     contact_id |-> req[r].contacts[req[r].idx],
     status |-> "sent",
     error_message |-> ~ok,
     tracking_id |-> <<req[r].campaignId, req[r].contacts[req[r].idx]>>,
     sent_at |-> now]

\* the row insertSentEmail.run writes for the current contact; the tracking
\* id, a fresh uuid in the code, is the pair of the campaign and the contact
SentEmailRow(r, ok) ==
    [campaign_id |-> req[r].campaignId,
     contact_id |-> req[r].contacts[req[r].idx],
     status |-> IF ok THEN "sent" ELSE "failed",
     error_message |-> ~ok,
     tracking_id |-> <<req[r].campaignId, req[r].contacts[req[r].idx]>>,
     sent_at |-> now]

\* mutant: a failed provider call gives its email back to the daily counter
ProviderReturn_refund(r) ==
    /\ req[r].pc = "sending"
    /\ \E ok \in BOOLEAN :
          LET c == req[r].contacts[req[r].idx]
          IN /\ sent_emails' = Append(sent_emails, SentEmailRow(r, ok))
             /\ log' = [log EXCEPT ![r] =
                    @ \o <<[ev |-> IF ok THEN "ok" ELSE "error", contact |-> c],
                           [ev |-> "record", contact |-> c]>>]
             /\ req' = [req EXCEPT ![r] =
                    [@ EXCEPT !.pc = "delay",
                              !.successful = IF ok THEN Append(@, c) ELSE @,
                              !.failed = IF ok THEN @ ELSE Append(@, c)]]
             /\ daily_quota' =
                    IF ok \/ today \notin DOMAIN daily_quota THEN daily_quota
                    ELSE [daily_quota EXCEPT ![today] = @ - 1]
    /\ UNCHANGED <<web, DAILY_EMAIL_LIMIT, SES_FROM_EMAIL, today, campaigns,
                   hist, reservedOn, sendsOn>>

\* the provider send of the current contact returns (ok: delivered to the
\* provider, ~ok: sendEmail caught the provider's error); the record is
\* inserted, the result is pushed, and the loop awaits the 100 ms delay
ProviderReturn(r) ==
    /\ req[r].pc = "sending"
    /\ \E ok \in BOOLEAN :
          LET c == req[r].contacts[req[r].idx]
          IN /\ sent_emails' = Append(sent_emails, SentEmailRow(r, ok))
             /\ log' = [log EXCEPT ![r] =
                    @ \o <<[ev |-> IF ok THEN "ok" ELSE "error", contact |-> c],
                           [ev |-> "record", contact |-> c]>>]
             /\ req' = [req EXCEPT ![r] =
                    [@ EXCEPT !.pc = "delay",
                              !.successful = IF ok THEN Append(@, c) ELSE @,
                              !.failed = IF ok THEN @ ELSE Append(@, c)]]
    /\ UNCHANGED <<web, DAILY_EMAIL_LIMIT, SES_FROM_EMAIL, today, daily_quota, campaigns,
                   hist, reservedOn, sendsOn>>

\* the provider send returns and insertSentEmail.run throws: sendBulkEmails
\* rejects, outer catch, 500
RecordInsertFails(r) ==
    /\ req[r].pc = "sending"
    /\ \E ok \in BOOLEAN :
          log' = [log EXCEPT ![r] =
              Append(@, [ev |-> IF ok THEN "ok" ELSE "error",
                         contact |-> req[r].contacts[req[r].idx]])]
    /\ req' = [req EXCEPT ![r] = Respond(r, 500, "Failed to send emails", DbError)]
    /\ UNCHANGED <<web, DAILY_EMAIL_LIMIT, SES_FROM_EMAIL, today, daily_quota, campaigns,
                   sent_emails, hist, reservedOn, sendsOn>>

\* mutant: the loop advances but sends to the contact it has just handled
NextSend_sameContact(r) ==
    /\ req[r].pc = "delay"
    /\ req[r].idx < Len(req[r].contacts)
    /\ CallProvider(r, req[r].contacts[req[r].idx], today)
    /\ req' = [req EXCEPT ![r] = [@ EXCEPT !.pc = "sending", !.idx = @ + 1]]
    /\ UNCHANGED <<web, DAILY_EMAIL_LIMIT, SES_FROM_EMAIL, today, daily_quota, campaigns,
                   sent_emails, hist, reservedOn>>

\* the delay elapsed and there is a next contact: its provider send starts
NextSend(r) ==
    /\ req[r].pc = "delay"
    /\ req[r].idx < Len(req[r].contacts)
    /\ CallProvider(r, req[r].contacts[req[r].idx + 1], today)
    /\ req' = [req EXCEPT ![r] = [@ EXCEPT !.pc = "sending", !.idx = @ + 1]]
    /\ UNCHANGED <<web, DAILY_EMAIL_LIMIT, SES_FROM_EMAIL, today, daily_quota, campaigns,
                   sent_emails, hist, reservedOn>>

\* the delay elapsed after the last contact: sendBulkEmails returns and the
\* handler answers 200 with the counts
Complete(r) ==
    /\ req[r].pc = "delay"
    /\ req[r].idx = Len(req[r].contacts)
    /\ req' = [req EXCEPT ![r] =
           [@ EXCEPT !.pc = "done", !.status = 200,
                     !.results = [totalRequested |-> req[r].results.totalRequested,
                                  successful |-> Len(req[r].successful),
                                  failed |-> Len(req[r].failed)]]]
    /\ UNCHANGED <<web, DAILY_EMAIL_LIMIT, SES_FROM_EMAIL, today, daily_quota, campaigns,
                   sent_emails, hist, log, reservedOn, sendsOn>>

\* ------------------------------------------------------------ specification
Next ==
    \/ Tick
    \/ \E r \in Requests :
          \/ QuotaGuardEnter(r)
          \/ QuotaGuardStoreError(r)
          \/ GuardDeny(r)
          \/ RejectNoContactIds(r)
          \/ RejectNoSubject(r)
          \/ RejectNoBody(r)
          \/ RejectNoValidContacts(r)
          \/ ReservationRejected(r)
          \/ ReservationStoreError(r)
          \/ CampaignInsertFails(r)
          \/ SenderNotConfigured(r)
          \/ StartDispatch(r)
          \/ ProviderReturn(r)
          \/ RecordInsertFails(r)
          \/ NextSend(r)
          \/ Complete(r)

Spec == Init /\ [][Next]_vars

\* emails_sent stored for day d in table t (0 when t has no row for d)
Stored(t, d) == IF d \in DOMAIN t THEN t[d] ELSE 0

\* ------------------------------------------- the read-only quota endpoints
\* counter values next to 0 and next to the limit
UsedCounts ==
    {u \in 1..DailyLimit : u <= MaxUsed \/ DailyLimit - u <= MaxUsed}

\* daily_quota tables the reservations of day 1 can have produced
CounterTables == {<<>>} \cup {[d \in {1} |-> u] : u \in UsedCounts}

\* request bodies of POST /api/emails/validate
ValidateBodies ==
    {b \in [hasIds : BOOLEAN, contactIds : IdLists] :
        ~b.hasIds => b.contactIds = <<>>}

\* the server on day 1, after the reservations of earlier requests
QuotaInit ==
    /\ DAILY_EMAIL_LIMIT \in LimitSettings
    /\ SES_FROM_EMAIL = TRUE
    /\ today = 1
    /\ daily_quota \in CounterTables
    /\ campaigns = 0
    /\ sent_emails = <<>>
    /\ req = [r \in Requests |-> IdleReq]
    /\ hist = [r \in Requests |-> NoHist]
    /\ log = [r \in Requests |-> <<>>]
    /\ reservedOn = [d \in Days |-> Stored(daily_quota, d)]
    /\ sendsOn = [d \in Days |-> 0]
    /\ WebInit

\* POST /api/emails/validate without a usable contactIds array: 400
ValidateRejected ==
    /\ \E b \in ValidateBodies :
          /\ ~b.hasIds \/ Len(b.contactIds) = 0
          /\ resp' = [endpoint |-> "POST /api/emails/validate", status |-> 400,
                      error |-> "Please provide contact IDs to validate"]
    /\ UNCHANGED <<personalize, pipeline, now, requestCounts, passed, session, contacts,
                   email_opens, opens>>

\* POST /api/emails/validate: validateSendRequest(contactIds.length) reads the
\* local quota, the probe returns p, and the result is the response
ValidateEndpoint ==
    /\ \E b \in ValidateBodies, p \in ProbeResults :
          /\ b.hasIds /\ Len(b.contactIds) # 0
          /\ LET n == Len(b.contactIds)
                 localQuota == canSendEmails(today, n)
                 validation == validateSendRequest(localQuota.remaining, p, n)
             IN resp' = [endpoint |-> "POST /api/emails/validate", status |-> 200,
                         error |-> "",
                         canSend |-> validation.canSend,
                         requestedCount |-> validation.requestedCount,
                         availableCount |-> validation.availableCount,
                         reasons |-> validation.reasons,
                         warnings |-> validation.warnings,
                         quotaDetails |->
                             [local |-> [limit |-> DailyLimit,
                                         used |-> localQuota.currentCount,
                                         remaining |-> localQuota.remaining],
                              aws |-> checkSESCapacity(p, n).awsQuota]]
    /\ UNCHANGED <<personalize, pipeline, now, requestCounts, passed, session, contacts,
                   email_opens, opens>>

\* GET /api/emails/quota or POST /api/emails/validate while the read of
\* daily_quota throws: the catch of the handler answers 500
QuotaReadFails ==
    /\ \E ep \in {[endpoint |-> "GET /api/emails/quota",
                    error |-> "Failed to fetch quota status"],
                   [endpoint |-> "POST /api/emails/validate",
                    error |-> "Failed to validate send request"]} :
          resp' = [endpoint |-> ep.endpoint, status |-> 500, error |-> ep.error]
    /\ UNCHANGED <<personalize, pipeline, now, requestCounts, passed, session, contacts,
                   email_opens, opens>>

\* mutant: the quota endpoint counts its own request as an email
QuotaEndpoint_counts ==
    /\ \E p \in ProbeResults :
          resp' = [endpoint |-> "GET /api/emails/quota", status |-> 200,
                   error |-> "", quota |-> getQuotaStatus(today, p)]
    /\ daily_quota' = incrementDailyCount(today, 1)
    /\ UNCHANGED <<personalize, DAILY_EMAIL_LIMIT, SES_FROM_EMAIL, today, campaigns,
                   sent_emails, req, hist, log, reservedOn, sendsOn, now,
                   requestCounts, passed, session, contacts, email_opens, opens>>

\* GET /api/emails/quota: getQuotaStatus() with probe result p
QuotaEndpoint ==
    /\ \E p \in ProbeResults :
          resp' = [endpoint |-> "GET /api/emails/quota", status |-> 200,
                   error |-> "", quota |-> getQuotaStatus(today, p)]
    /\ UNCHANGED <<personalize, pipeline, now, requestCounts, passed, session, contacts,
                   email_opens, opens>>

QuotaNext ==
    \/ Tick
    \/ ValidateRejected
    \/ ValidateEndpoint
    \/ QuotaReadFails
    \/ QuotaEndpoint

QuotaSpec == QuotaInit /\ [][QuotaNext]_vars

\* ------------------------------------- the counter and everything that reads it
\* the server on day 1 with DAILY_EMAIL_LIMIT set to MaxLimit and a sender
\* address, before any reservation
CounterInit ==
    /\ DAILY_EMAIL_LIMIT = <<MaxLimit>>
    /\ SES_FROM_EMAIL = TRUE
    /\ today = 1
    /\ daily_quota = <<>>
    /\ campaigns = 0
    /\ sent_emails = <<>>
    /\ req = [r \in Requests |-> IdleReq]
    /\ hist = [r \in Requests |-> NoHist]
    /\ log = [r \in Requests |-> <<>>]
    /\ reservedOn = [d \in Days |-> 0]
    /\ sendsOn = [d \in Days |-> 0]
    /\ WebInit

\* a send request with a subject and a body arrives: quotaGuard up to the
\* await of the provider probe
CounterSendArrives(r) ==
    /\ req[r].pc = "idle"
    /\ \A q \in Requests : q < r => req[q].pc # "idle"
    /\ \E b \in SendBodies :
          /\ b.hasIds /\ b.subject = Template /\ b.body = Template
          /\ req' = [req EXCEPT ![r] = QuotaGuardFirst(r, b)]
    /\ UNCHANGED <<web, DAILY_EMAIL_LIMIT, SES_FROM_EMAIL, today, daily_quota, campaigns,
                   sent_emails, hist, log, reservedOn, sendsOn>>

\* send requests, and at any moment between their steps one request to one
\* of the two read-only quota endpoints
CounterNext ==
    \/ resp = NoResp /\ ValidateRejected
    \/ resp = NoResp /\ ValidateEndpoint
    \/ resp = NoResp /\ QuotaReadFails
    \/ resp = NoResp /\ QuotaEndpoint
    \/ \E r \in Requests :
          \/ CounterSendArrives(r)
          \/ QuotaGuardStoreError(r)
          \/ GuardDeny(r)
          \/ RejectNoContactIds(r)
          \/ RejectNoValidContacts(r)
          \/ ReservationRejected(r)
          \/ ReservationStoreError(r)
          \/ StartDispatch(r)
          \/ ProviderReturn(r)
          \/ NextSend(r)
          \/ Complete(r)

CounterSpec == CounterInit /\ [][CounterNext]_vars

\* ------------------------------------------------------ the tracking pixel
\* the 1x1 transparent GIF
TRACKING_PIXEL == "R0lGODlhAQABAIAAAAAAAP///yH5BAEAAAAALAAAAAABAAEAAAIBRAA7"

\* tracking ids a pixel request can carry: the one of the email campaign 1
\* sent to contact 1, and one that no row has
TrackingIds == {<<1, 1>>, <<0, 0>>}

\* the instants the clock of the tracking requests runs through: the send,
\* and 3, 5 and 8 minutes after it
TrackInstants == {0, 3 * MinuteMs, 5 * MinuteMs, 8 * MinuteMs}

\* the server after one email was sent at instant 0
TrackInit ==
    /\ DAILY_EMAIL_LIMIT = <<>>
    /\ SES_FROM_EMAIL = TRUE
    /\ today = 1
    /\ daily_quota = [d \in {1} |-> 1]
    /\ campaigns = 1
    /\ sent_emails = <<[campaign_id |-> 1, contact_id |-> 1, status |-> "sent",
                        error_message |-> FALSE, tracking_id |-> <<1, 1>>, sent_at |-> 0]>>
    /\ req = [r \in Requests |-> IdleReq]
    /\ hist = [r \in Requests |-> NoHist]
    /\ log = [r \in Requests |-> <<>>]
    /\ reservedOn = [d \in Days |-> IF d = 1 THEN 1 ELSE 0]
    /\ sendsOn = [d \in Days |-> IF d = 1 THEN 1 ELSE 0]
    /\ WebInit

\* time passes, to the next instant
TrackClock ==
    /\ \E t \in TrackInstants :
          /\ t > now
          /\ \A t2 \in TrackInstants : t2 > now => t <= t2
          /\ now' = t
    /\ UNCHANGED <<personalize, pipeline, resp, requestCounts, passed, session, contacts,
                   email_opens, opens>>

\* mutant: a send on a finished response goes out as a second answer
ResSend_again(answers, body) ==
    [answers |-> Append(answers, body), threw |-> FALSE]

\* res.send(body) on a response that has sent these answers: the first send
\* writes the response; on a finished response setting Content-Length
\* throws (headers already sent) and nothing goes out
ResSend(answers, body) ==
    IF answers = <<>>
    THEN [answers |-> <<body>>, threw |-> FALSE]
    ELSE [answers |-> answers, threw |-> TRUE]

\* SELECT id, sent_at FROM sent_emails WHERE tracking_id = ?: the ids of the
\* rows found
SentEmailOf(trackingId) ==
    {i \in DOMAIN sent_emails : sent_emails[i].tracking_id = trackingId}

\* minutesSinceSent < 3
IsPreScan(i) == now - sent_emails[i].sent_at < PreScanMinutes * MinuteMs

\* mutant: the duplicate check finds nothing
RecentOpen_none(i, ip) == {}

\* SELECT id FROM email_opens WHERE sent_email_id = ? AND ip_address = ?
\* AND opened_at > datetime('now', '-5 minutes')
RecentOpen(i, ip) ==
    {row \in email_opens :
        /\ row.sent_email_id = i
        /\ row.ip_address = ip
        /\ row.opened_at > now - DuplicateMinutes * MinuteMs}

\* GET /api/track/open/:trackingId, the route handler: the headers are set,
\* the recording is queued with setImmediate, and the pixel is sent
OpenArrives(o) ==
    /\ opens[o].pc = "idle"
    /\ \A q \in OpenRequests : q < o => opens[q].pc # "idle"
    /\ \E t \in TrackingIds, ip \in Clients :
          opens' = [opens EXCEPT ![o] =
              [@ EXCEPT !.pc = "queued", !.trackingId = t, !.ip = ip,
                        !.answers = ResSend(<<>>, TRACKING_PIXEL).answers]]
    /\ UNCHANGED <<personalize, pipeline, resp, now, requestCounts, passed, session, contacts,
                   email_opens>>

\* the queued callback, when a database statement throws (the lookup, the
\* duplicate check or the insert): the catch logs it
OpenDbError(o) ==
    /\ opens[o].pc = "queued"
    /\ opens' = [opens EXCEPT ![o] = [@ EXCEPT !.pc = "done", !.outcome = "error"]]
    /\ UNCHANGED <<personalize, pipeline, resp, now, requestCounts, passed, session, contacts,
                   email_opens>>

\* the queued callback, when no sent_emails row has the tracking id
OpenUnknown(o) ==
    /\ opens[o].pc = "queued"
    /\ SentEmailOf(opens[o].trackingId) = {}
    /\ opens' = [opens EXCEPT ![o] = [@ EXCEPT !.pc = "done", !.outcome = "unknown"]]
    /\ UNCHANGED <<personalize, pipeline, resp, now, requestCounts, passed, session, contacts,
                   email_opens>>

\* the queued callback, within 3 minutes of the send: the open is ignored,
\* and the callback calls res.send(TRACKING_PIXEL) on the response the
\* handler has already sent; what that throws is caught by the catch
OpenPreScan(o) ==
    /\ opens[o].pc = "queued"
    /\ \E i \in SentEmailOf(opens[o].trackingId) :
          /\ IsPreScan(i)
          /\ opens' = [opens EXCEPT ![o] =
                 [@ EXCEPT !.pc = "done", !.outcome = "prescan",
                           !.answers = ResSend(opens[o].answers, TRACKING_PIXEL).answers]]
    /\ UNCHANGED <<personalize, pipeline, resp, now, requestCounts, passed, session, contacts,
                   email_opens>>

\* the queued callback, when the same ip opened the same email within the
\* last 5 minutes: nothing is written
OpenDuplicate(o) ==
    /\ opens[o].pc = "queued"
    /\ \E i \in SentEmailOf(opens[o].trackingId) :
          /\ ~IsPreScan(i)
          /\ RecentOpen(i, opens[o].ip) # {}
    /\ opens' = [opens EXCEPT ![o] = [@ EXCEPT !.pc = "done", !.outcome = "duplicate"]]
    /\ UNCHANGED <<personalize, pipeline, resp, now, requestCounts, passed, session, contacts,
                   email_opens>>

\* the queued callback records the open
OpenRecorded(o) ==
    /\ opens[o].pc = "queued"
    /\ \E i \in SentEmailOf(opens[o].trackingId) :
          /\ ~IsPreScan(i)
          /\ RecentOpen(i, opens[o].ip) = {}
          /\ email_opens' = email_opens \cup
                 {[sent_email_id |-> i, tracking_id |-> opens[o].trackingId,
                   ip_address |-> opens[o].ip, opened_at |-> now]}
    /\ opens' = [opens EXCEPT ![o] = [@ EXCEPT !.pc = "done", !.outcome = "recorded"]]
    /\ UNCHANGED <<personalize, pipeline, resp, now, requestCounts, passed, session, contacts>>

TrackNext ==
    \/ TrackClock
    \/ \E o \in OpenRequests :
          \/ OpenArrives(o)
          \/ OpenDbError(o)
          \/ OpenUnknown(o)
          \/ OpenPreScan(o)
          \/ OpenDuplicate(o)
          \/ OpenRecorded(o)

TrackSpec == TrackInit /\ [][TrackNext]_vars

\* ------------------------------------------------- sessions and requireAuth
\* the one account of USERS, and the password its hash was made from
USERS == {"rohanfiladil"}
Password == "password"

\* login request bodies: the right credentials, a wrong password, an
\* unknown user, and a missing field
Credentials ==
    {[username |-> "rohanfiladil", password |-> Password],
     [username |-> "rohanfiladil", password |-> "guess"],
     [username |-> "nobody", password |-> Password],
     [username |-> "rohanfiladil", password |-> ""]}

\* verifyCredentials(username, password).valid
verifyCredentials(c) == c.username \in USERS /\ c.password = Password

\* mutant: every session is let through
requireAuth_open(s) == TRUE

\* requireAuth lets the request of session s through
requireAuth(s) == session[s].user # <<>>

\* the 401 of requireAuth
Unauthorized(ep, s) ==
    [endpoint |-> ep, session |-> s, status |-> 401, error |-> "UNAUTHORIZED"]

\* POST /api/auth/login without username or password: 400
LoginRejected(s) ==
    /\ \E c \in Credentials : c.username = "" \/ c.password = ""
    /\ session' = [session EXCEPT ![s].last =
                       IF session[s].user = <<>> THEN "failed" ELSE @]
    /\ UNCHANGED <<personalize, pipeline, resp, now, requestCounts, passed, contacts,
                   email_opens, opens>>

\* POST /api/auth/login with credentials that do not verify: 401, and the
\* session is left as it is
LoginFails(s) ==
    /\ \E c \in Credentials :
          /\ c.username # "" /\ c.password # ""
          /\ ~verifyCredentials(c)
    /\ session' = [session EXCEPT ![s].last =
                       IF session[s].user = <<>> THEN "failed" ELSE @]
    /\ UNCHANGED <<personalize, pipeline, resp, now, requestCounts, passed, contacts,
                   email_opens, opens>>

\* POST /api/auth/login with the right credentials: req.session.user is set
LoginSucceeds(s) ==
    /\ \E c \in Credentials :
          /\ c.username # "" /\ c.password # ""
          /\ verifyCredentials(c)
          /\ session' = [session EXCEPT ![s] = [user |-> <<c.username>>, last |-> "login"]]
    /\ UNCHANGED <<personalize, pipeline, resp, now, requestCounts, passed, contacts,
                   email_opens, opens>>

\* POST /api/auth/logout: req.session.destroy
Logout(s) ==
    /\ session' = [session EXCEPT ![s] = [user |-> <<>>, last |-> "logout"]]
    /\ UNCHANGED <<personalize, pipeline, resp, now, requestCounts, passed, contacts,
                   email_opens, opens>>

\* DELETE /api/contacts/:id behind requireAuth
DeleteContact(s) ==
    /\ \E id \in ContactIdSpace :
          IF ~requireAuth(s)
          THEN /\ resp' = Unauthorized("DELETE /api/contacts/:id", s)
               /\ contacts' = contacts
          ELSE /\ contacts' = contacts \ {id}
               /\ resp' = [endpoint |-> "DELETE /api/contacts/:id", session |-> s,
                           status |-> IF id \in contacts THEN 200 ELSE 404,
                           error |-> IF id \in contacts THEN "" ELSE "Contact not found"]
    /\ UNCHANGED <<personalize, pipeline, now, requestCounts, passed, session,
                   email_opens, opens>>

\* POST /api/emails/send of a session that requireAuth stops: 401
SendUnauthorized(s, r) ==
    /\ r <= MaxAuthSends
    /\ req[r].pc = "idle"
    /\ \A q \in Requests : q < r => req[q].pc # "idle"
    /\ ~requireAuth(s)
    /\ req' = [req EXCEPT ![r] = Respond(r, 401, "UNAUTHORIZED", "")]
    /\ resp' = Unauthorized("POST /api/emails/send", s)
    /\ UNCHANGED <<personalize, DAILY_EMAIL_LIMIT, SES_FROM_EMAIL, today, daily_quota,
                   campaigns, sent_emails, hist, log, reservedOn, sendsOn,
                   now, requestCounts, passed, session, contacts, email_opens, opens>>

\* POST /api/emails/send of a session that requireAuth lets through: the
\* request enters quotaGuard
SendAuthorized(s, r) ==
    /\ r <= MaxAuthSends
    /\ req[r].pc = "idle"
    /\ \A q \in Requests : q < r => req[q].pc # "idle"
    /\ requireAuth(s)
    /\ \E b \in SendBodies : req' = [req EXCEPT ![r] = QuotaGuardFirst(r, b)]
    /\ resp' = [endpoint |-> "POST /api/emails/send", session |-> s,
                status |-> 0, error |-> ""]
    /\ UNCHANGED <<personalize, DAILY_EMAIL_LIMIT, SES_FROM_EMAIL, today, daily_quota,
                   campaigns, sent_emails, hist, log, reservedOn, sendsOn,
                   now, requestCounts, passed, session, contacts, email_opens, opens>>

\* the server with the default limit and a sender address
AuthInit ==
    /\ DAILY_EMAIL_LIMIT = <<>>
    /\ SES_FROM_EMAIL = TRUE
    /\ today = 1
    /\ daily_quota = <<>>
    /\ campaigns = 0
    /\ sent_emails = <<>>
    /\ req = [r \in Requests |-> IdleReq]
    /\ hist = [r \in Requests |-> NoHist]
    /\ log = [r \in Requests |-> <<>>]
    /\ reservedOn = [d \in Days |-> 0]
    /\ sendsOn = [d \in Days |-> 0]
    /\ WebInit

AuthNext ==
    \/ \E s \in Sessions :
          \/ LoginRejected(s)
          \/ LoginFails(s)
          \/ LoginSucceeds(s)
          \/ Logout(s)
          \/ DeleteContact(s)
          \/ \E r \in Requests :
                \/ SendUnauthorized(s, r)
                \/ SendAuthorized(s, r)
    \/ \E r \in Requests :
          \/ GuardDeny(r)
          \/ RejectNoContactIds(r)
          \/ RejectNoSubject(r)
          \/ RejectNoBody(r)
          \/ RejectNoValidContacts(r)
          \/ StartDispatch(r)
          \/ ProviderReturn(r)
          \/ NextSend(r)
          \/ Complete(r)
    \/ \E o \in 1..MaxAuthOpens :
          \/ OpenArrives(o)
          \/ OpenDbError(o)
          \/ OpenUnknown(o)
          \/ OpenPreScan(o)

AuthSpec == AuthInit /\ [][AuthNext]_vars

\* --------------------------------------------------------- the rate limiter
\* the server when it has started
RateInit == AuthInit

\* time passes, to the next instant; the requests passed on 60 seconds ago
\* or earlier leave every interval of 60 seconds that is still open
RateClock ==
    /\ \E t \in RateInstants :
          /\ t > now
          /\ \A t2 \in RateInstants : t2 > now => t <= t2
          /\ now' = t
          /\ passed' = [ip \in Clients |->
                 [t2 \in RateInstants |->
                     IF t - t2 >= windowMs THEN 0 ELSE passed[ip][t2]]]
    /\ UNCHANGED <<personalize, pipeline, resp, requestCounts, session, contacts,
                   email_opens, opens>>

\* the Map after the clean-up loop: entries older than the window are deleted
CleanedUp ==
    [k \in Clients |->
        IF requestCounts[k] # <<>> /\ now - requestCounts[k][1].startTime > windowMs
        THEN <<>> ELSE requestCounts[k]]

\* the entry of ip after "get or create"
EntryOf(ip) ==
    IF CleanedUp[ip] = <<>> THEN [count |-> 0, startTime |-> now]
    ELSE CleanedUp[ip][1]

\* the middleware rateLimiter(60000, 100) on a request of ip: the entry's
\* count is raised, and the request is passed on to the routes, or answered
\* 429 RATE_LIMITED when the count has gone over maxRequests
RateLimiter(ip) ==
    LET entry == [EntryOf(ip) EXCEPT !.count = @ + 1]
    IN /\ entry.count <= maxRequests + MaxOverLimit
       /\ requestCounts' = [CleanedUp EXCEPT ![ip] = <<entry>>]
       /\ IF entry.count > maxRequests
          THEN /\ resp' = [endpoint |-> "*", status |-> 429, error |-> "RATE_LIMITED"]
               /\ passed' = passed
          ELSE /\ resp' = [endpoint |-> "*", status |-> 0, error |-> ""]
               /\ passed' = [passed EXCEPT ![ip][now] = @ + 1]
       /\ UNCHANGED <<personalize, pipeline, now, session, contacts, email_opens, opens>>

RateNext ==
    \/ RateClock
    \/ \E ip \in Clients : RateLimiter(ip)

RateSpec == RateInit /\ [][RateNext]_vars

\* --------------------------------------------------------- personalization
\* A text is a sequence of lexical units: the braces, the variable names
\* (one also in capitals), and "x" for any other run of characters; so
\* <<"{", "x", "}">> is a placeholder that is not recognised.
Units == {"{", "}", "first_name", "FIRST_NAME", "last_name", "company_name", "email", "x"}

\* the subjects and bodies a composer writes
PersTexts == UNION {[1..n -> Units] : n \in 0..MaxTextLen}

\* a field of a contact: <<>> when the contact has no such field, <<v>> for
\* the string v.  The strings: empty, a name, a name that reads like a
\* placeholder, and a name with the characters $&
FirstNames == {<<>>, << <<>> >>, << <<"Ann">> >>, << <<"{", "email", "}">> >>, << <<"$&">> >>}
PersContacts ==
    [first_name : FirstNames,
     last_name : {<<>>, << <<"Lee">> >>},
     company_name : {<<>>, << <<"Acme">> >>},
     email : {<<>>, << <<"ann@acme.example">> >>}]

\* the flag i of the regular expressions: letters match in either case
ToLower(u) == IF u = "FIRST_NAME" THEN "first_name" ELSE u

\* contact.field || ''
OrEmpty(field) == IF field = <<>> \/ field[1] = <<>> THEN <<>> ELSE field[1]

\* the replacement string of String.prototype.replace as it is inserted for
\* the match matched: the pattern $& stands for the matched substring
RECURSIVE GetSubstitution(_, _)
GetSubstitution(replacement, matched) ==
    IF replacement = <<>> THEN <<>>
    ELSE (IF Head(replacement) = "$&" THEN matched ELSE <<Head(replacement)>>)
         \o GetSubstitution(Tail(replacement), matched)

\* text.replace(/\{name\}/gi, replacement) from position i on: the matches
\* are found left to right in text, and what is inserted is not searched
RECURSIVE ReplaceFrom(_, _, _, _)
ReplaceFrom(text, i, name, replacement) ==
    IF i > Len(text) THEN <<>>
    ELSE IF /\ i + 2 <= Len(text)
            /\ text[i] = "{"
            /\ ToLower(text[i + 1]) = name
            /\ text[i + 2] = "}"
         THEN GetSubstitution(replacement, SubSeq(text, i, i + 2))
              \o ReplaceFrom(text, i + 3, name, replacement)
         ELSE <<text[i]>> \o ReplaceFrom(text, i + 1, name, replacement)

Replace(text, name, replacement) == ReplaceFrom(text, 1, name, replacement)

\* a personalization that also drops the placeholders it does not know
personalizeContent_dropUnknown(text, contact) ==
    Replace(Replace(Replace(Replace(Replace(text,
        "first_name", OrEmpty(contact.first_name)),
        "last_name", OrEmpty(contact.last_name)),
        "company_name", OrEmpty(contact.company_name)),
        "email", OrEmpty(contact.email)),
        "x", <<>>)

\* personalizeContent of the backend, which sendBulkEmails applies to the subject
\* and to the body
personalizeContent(text, contact) ==
    IF text = <<>> THEN text
    ELSE Replace(Replace(Replace(Replace(text,
             "first_name", OrEmpty(contact.first_name)),
             "last_name", OrEmpty(contact.last_name)),
             "company_name", OrEmpty(contact.company_name)),
             "email", OrEmpty(contact.email))

\* personalizeText of the composer, which the live preview applies
personalizeText(text, contact) ==
    IF text = <<>> THEN text
    ELSE Replace(Replace(Replace(text,
             "first_name", OrEmpty(contact.first_name)),
             "last_name", OrEmpty(contact.last_name)),
             "company_name", OrEmpty(contact.company_name))

\* TRUE iff text holds one of the four placeholders, in any letter case
HasToken(text) ==
    \E i \in 1..(Len(text) - 2) :
        /\ text[i] = "{"
        /\ ToLower(text[i + 1]) \in {"first_name", "last_name", "company_name", "email"}
        /\ text[i + 2] = "}"

\* a text and a contact, and nothing made of them yet
PersInit ==
    /\ DAILY_EMAIL_LIMIT = <<>>
    /\ SES_FROM_EMAIL = TRUE
    /\ today = 1
    /\ daily_quota = <<>>
    /\ campaigns = 0
    /\ sent_emails = <<>>
    /\ req = [r \in Requests |-> IdleReq]
    /\ hist = [r \in Requests |-> NoHist]
    /\ log = [r \in Requests |-> <<>>]
    /\ reservedOn = [d \in Days |-> 0]
    /\ sendsOn = [d \in Days |-> 0]
    /\ ServerInit
    /\ \E t \in PersTexts, c \in PersContacts :
          personalize = [NoPersonalize EXCEPT !.text = t, !.contact = c]

\* sendBulkEmails personalizes the text for the contact
Personalize ==
    /\ personalize.sent = <<>>
    /\ personalize' = [personalize EXCEPT
                          !.sent = <<personalizeContent(personalize.text, personalize.contact)>>]
    /\ UNCHANGED <<pipeline, server>>

\* what was sent is personalized once more for the same contact
PersonalizeAgain ==
    /\ personalize.sent # <<>>
    /\ personalize.again = <<>>
    /\ personalize' = [personalize EXCEPT
                          !.again = <<personalizeContent(personalize.sent[1], personalize.contact)>>]
    /\ UNCHANGED <<pipeline, server>>

\* the composer shows the live preview of the text for the contact
UpdatePreview ==
    /\ personalize.preview = <<>>
    /\ personalize' = [personalize EXCEPT
                          !.preview = <<personalizeText(personalize.text, personalize.contact)>>]
    /\ UNCHANGED <<pipeline, server>>

PersNext ==
    \/ Personalize
    \/ PersonalizeAgain
    \/ UpdatePreview

PersSpec == PersInit /\ [][PersNext]_vars

TypeOK ==
    /\ today \in Days
    /\ campaigns \in Nat
    /\ \A r \in Requests : req[r].pc \in {"idle", "probe", "sending", "delay", "done"}

\* ------------------------------------------------- vocabulary of the claims
\* sum of emails_sent over all rows of table t
TotalStored(t) == SumOver(DOMAIN t, t)

\* the contacts of the events of kind evs in a log, in order
RECURSIVE ContactsOf(_, _)
ContactsOf(lg, evs) ==
    IF lg = <<>> THEN <<>>
    ELSE (IF Head(lg).ev \in evs THEN <<Head(lg).contact>> ELSE <<>>)
         \o ContactsOf(Tail(lg), evs)

\* the rows of table t that belong to campaign cid, in rowid order
RECURSIVE RowsOf(_, _)
RowsOf(t, cid) ==
    IF t = <<>> THEN <<>>
    ELSE (IF Head(t).campaign_id = cid THEN <<Head(t)>> ELSE <<>>)
         \o RowsOf(Tail(t), cid)

\* request r takes its reserveQuota call in this step, and the store answers
ReserveStep(r) == hist[r] = "none" /\ hist'[r] \in {"reserved", "rejected"}

\* floor(limit / 2) + 1
HalfPlusOne == (DailyLimit \div 2) + 1

\* ---------------------------------------------------------------------- C1
\* C1: on every UTC day the stored emails_sent equals the sum of the counts
\* of the reserveQuota calls that succeeded on that day (rejected calls add
\* nothing), and it never exceeds the daily limit in force.
C1_QuotaMonotonicity ==
    \A d \in Days :
        /\ Stored(daily_quota, d) = reservedOn[d]
        /\ Stored(daily_quota, d) <= DailyLimit

\* a day filled to the limit by a successful call, with a rejected call too
C1_Witness ==
    \E r1, r2 \in Requests :
        /\ hist[r1] = "reserved"
        /\ hist[r2] = "rejected"
        /\ Stored(daily_quota, today) = DailyLimit
        /\ reservedOn[today] = DailyLimit

\* ---------------------------------------------------------------------- C2
\* C2: of two reserveQuota(floor(limit/2)+1) calls against a day whose
\* counter is 0, the one that runs first succeeds and brings the counter to
\* floor(limit/2)+1, and the one that runs against that counter fails with
\* the reservation error and leaves the counter there.
C2_RaceSafety ==
    [][\A r \in Requests :
          (ReserveStep(r) /\ Len(req'[r].contacts) = HalfPlusOne) =>
              /\ Stored(daily_quota, today) = 0 =>
                    /\ hist'[r] = "reserved"
                    /\ Stored(daily_quota', today') = HalfPlusOne
              /\ Stored(daily_quota, today) = HalfPlusOne =>
                    /\ hist'[r] = "rejected"
                    /\ req'[r].status = 429
                    /\ req'[r].error = "QUOTA_RESERVATION_FAILED"
                    /\ daily_quota' = daily_quota]_vars

\* both requests passed the guard while the counter was 0 (a request that
\* arrives after the first reservation is stopped by the guard); one
\* reserved and is still sending, the other was refused
C2_Witness ==
    \E r1, r2 \in Requests :
        /\ hist[r1] = "reserved" /\ req[r1].pc \in {"sending", "delay"}
        /\ hist[r2] = "rejected" /\ req[r2].error = "QUOTA_RESERVATION_FAILED"
        /\ Len(req[r1].contacts) = HalfPlusOne
        /\ Len(req[r2].contacts) = HalfPlusOne
        /\ Stored(daily_quota, today) = HalfPlusOne

\* ---------------------------------------------------------------------- C3
\* C3: a request that passed quotaGuard reserves at its reserveQuota call
\* only if its count fits the quota that remains at that moment, so that
\* the reserved counts of a day never jointly exceed the limit; when the
\* count no longer fits, the answer is 429 QUOTA_RESERVATION_FAILED and the
\* request starts no provider send.
C3_ReservationIsEnforcementPoint ==
    [][\A r \in Requests :
          ReserveStep(r) =>
              IF Len(req'[r].contacts) <= DailyLimit - Stored(daily_quota, today)
              THEN /\ hist'[r] = "reserved"
                   /\ \A d \in Days : reservedOn'[d] <= DailyLimit
              ELSE /\ hist'[r] = "rejected"
                   /\ req'[r].pc = "done"
                   /\ req'[r].status = 429
                   /\ req'[r].error = "QUOTA_RESERVATION_FAILED"
                   /\ log'[r] = <<>>
                   /\ sendsOn' = sendsOn
                   /\ daily_quota' = daily_quota]_vars

\* a request for one contact that passed the guard and was refused at the
\* reservation, having sent nothing
C3_Witness ==
    \E r \in Requests :
        /\ hist[r] = "rejected"
        /\ Len(req[r].contacts) = 1
        /\ req[r].status = 429
        /\ log[r] = <<>>

\* ---------------------------------------------------------------------- C4
\* C4: on every UTC day the number of provider send calls made during that
\* day never exceeds the daily limit.
C4_DailySendCap == \A d \in Days : sendsOn[d] <= DailyLimit

\* ---------------------------------------------------------------------- C5
\* C5: a send request that is rejected before dispatch (400, 404, or 429
\* from the guard or from the reservation) has, from its arrival to its
\* answer, written no campaign and no sent_emails row, started no provider
\* send, and left daily_quota as it was.
C5_PreflightWritesNothing ==
    [][\A r \in Requests :
          ( /\ req'[r] # req[r]
            /\ req[r].pc \in {"idle", "probe"}
            /\ \/ req'[r].pc = "probe"
               \/ req'[r].pc = "done" /\ req'[r].status \in {400, 404, 429} ) =>
              /\ daily_quota' = daily_quota
              /\ campaigns' = campaigns
              /\ sent_emails' = sent_emails
              /\ sendsOn' = sendsOn
              /\ log' = log]_vars

\* a reservation failure next to a request that did reserve: the one
\* campaign and the whole counter are the other request's
C5_Witness ==
    \E r1, r2 \in Requests :
        /\ req[r1].pc = "done" /\ req[r1].error = "QUOTA_RESERVATION_FAILED"
        /\ hist[r2] = "reserved"
        /\ campaigns = 1
        /\ TotalStored(daily_quota) = Len(req[r2].contacts)

\* ---------------------------------------------------------------------- C6
\* C6: a send request with an empty contactIds array is answered 400
\* "Please select at least one contact", whatever the daily counter and the
\* provider capacity are (the quota store being readable).
C6_EmptyListIs400 ==
    [][\A r \in Requests :
          ( /\ req[r].pc = "probe"
            /\ req[r].hasIds
            /\ req[r].contactIds = <<>>
            /\ req'[r].pc = "done" ) =>
              /\ req'[r].status = 400
              /\ req'[r].error = "Please select at least one contact"]_vars

\* ---------------------------------------------------------------------- C7
\* C7: for a request that reserved, with N submitted ids of which
\* 0 < M < N resolve, the reservation raises the daily counter by exactly M,
\* and when the request is over (no database statement having thrown)
\* exactly M provider sends were started.
C7_ResolutionShrinkage ==
    /\ [][\A r \in Requests :
             ( /\ hist[r] = "none" /\ hist'[r] = "reserved"
               /\ Len(req'[r].contacts) < req'[r].requestedCount ) =>
                 TotalStored(daily_quota') - TotalStored(daily_quota)
                     = Len(req'[r].contacts)]_vars
    /\ [](\A r \in Requests :
             ( /\ req[r].pc = "done" /\ hist[r] = "reserved"
               /\ req[r].details # DbError
               /\ Len(req[r].contacts) < req[r].requestedCount ) =>
                 Len(ContactsOf(log[r], {"call"})) = Len(req[r].contacts))

\* ---------------------------------------------------------------------- C8
\* C8: when a request that reserved is over (no database statement having
\* thrown), the provider was called once
\* for each of its M contacts and sent_emails holds exactly one row per
\* contact, 'sent' iff that contact's provider call succeeded, 'failed' with
\* an error message otherwise.
C8_EveryContactAttempted ==
    \A r \in Requests :
        (req[r].pc = "done" /\ hist[r] = "reserved" /\ req[r].details # DbError) =>
            LET rows == RowsOf(sent_emails, req[r].campaignId)
            IN /\ ContactsOf(log[r], {"call"}) = req[r].contacts
               /\ req[r].campaignId > 0
               /\ Len(rows) = Len(req[r].contacts)
               /\ \A i \in DOMAIN rows :
                     /\ rows[i].contact_id = req[r].contacts[i]
                     /\ rows[i].status = "sent"
                           <=> rows[i].contact_id \in
                                   {c \in ContactRows :
                                       \E k \in DOMAIN log[r] :
                                           log[r][k] = [ev |-> "ok", contact |-> c]}
                     /\ rows[i].status = "failed" <=> rows[i].error_message

\* ---------------------------------------------------------------------- C9
\* C9: the 200 response of a completed send has successful + failed =
\* totalRequested = number of resolved contacts, successful is the number
\* of 'sent' rows the request wrote, and the failed list is exactly the
\* contacts whose provider call failed.
C9_ResultCounts ==
    \A r \in Requests :
        (req[r].pc = "done" /\ req[r].status = 200) =>
            LET rows == RowsOf(sent_emails, req[r].campaignId)
            IN /\ req[r].results.successful + req[r].results.failed
                     = req[r].results.totalRequested
               /\ req[r].results.totalRequested = Len(req[r].contacts)
               /\ req[r].results.successful
                     = Cardinality({i \in DOMAIN rows : rows[i].status = "sent"})
               /\ req[r].failed = ContactsOf(log[r], {"error"})
               /\ req[r].results.failed = Len(req[r].failed)

\* a completed batch of two with one success and one failure
C9_Witness ==
    \E r \in Requests :
        /\ req[r].pc = "done" /\ req[r].status = 200
        /\ req[r].results = [totalRequested |-> 2, successful |-> 1, failed |-> 1]

\* --------------------------------------------------------------------- C10
\* C10: within a batch the provider calls and the record writes alternate in
\* the order of the resolved contacts: call for contact i, its return, its
\* sent_emails row, and only then the call for contact i+1; the rows of the
\* batch are in the order of the resolved list.
C10_SequentialDispatch ==
    \A r \in Requests :
        /\ \A k \in DOMAIN log[r] :
              LET i == ((k - 1) \div 3) + 1
                  j == (k - 1) % 3
              IN /\ i <= Len(req[r].contacts)
                 /\ log[r][k].contact = req[r].contacts[i]
                 /\ j = 0 => log[r][k].ev = "call"
                 /\ j = 1 => log[r][k].ev \in {"ok", "error"}
                 /\ j = 2 => log[r][k].ev = "record"
        /\ req[r].campaignId > 0 =>
              LET rows == RowsOf(sent_emails, req[r].campaignId)
              IN /\ Len(rows) = Len(ContactsOf(log[r], {"record"}))
                 /\ \A i \in DOMAIN rows : rows[i].contact_id = req[r].contacts[i]

\* two batches of two interleaved: each has its first row written and its
\* second call under way
C10_Witness ==
    \E r1, r2 \in Requests :
        /\ r1 # r2
        /\ Len(log[r1]) = 4 /\ Len(log[r2]) = 4
        /\ req[r1].pc = "sending" /\ req[r2].pc = "sending"

\* --------------------------------------------------------------------- C11
\* C11: quota reserved on a UTC day is invisible on the next day: as long as
\* nothing was reserved on the current day, canSendEmails(n) reports used 0
\* and the full limit as remaining (and so does the snapshot quotaGuard takes
\* for an arriving request), whatever the rows of earlier days hold; the
\* rows of earlier days, and the row of the day that ends, are kept as they
\* are.
C11_Rollover ==
    /\ [](reservedOn[today] = 0 =>
             \A n \in 1..MaxIds :
                 /\ canSendEmails(today, n).currentCount = 0
                 /\ canSendEmails(today, n).remaining = DailyLimit
                 /\ canSendEmails(today, n).canSend <=> n <= DailyLimit)
    /\ [][\A r \in Requests :
             (reservedOn[today] = 0 /\ req[r].pc = "idle" /\ req'[r].pc = "probe") =>
                 req'[r].localRemaining = DailyLimit]_vars
    /\ [][\A d \in Days :
             (d < today \/ (d = today /\ today' > today)) =>
                 /\ Stored(daily_quota', d) = Stored(daily_quota, d)
                 /\ d \in DOMAIN daily_quota' <=> d \in DOMAIN daily_quota]_vars

\* day 1 was filled to the limit, and on day 2 a second request reserved the
\* full limit again: its canSendEmails ran on day 2 against the full day 1
\* row
C11_Witness ==
    /\ today = 2
    /\ Stored(daily_quota, 1) = DailyLimit
    /\ Stored(daily_quota, 2) = DailyLimit
    /\ \A r \in Requests : hist[r] = "reserved"

\* --------------------------------------------------------------------- C12
\* C12: the canSend that validateSendRequest(n) reports (the response of
\* POST /api/emails/validate) is true only if limit - used >= n for the
\* counter as it is when the check is made, whether the provider probe
\* reports capacity, reports too little capacity, or fails.
C12_LocalCapNeverBypassed ==
    [][(resp' # resp /\ resp'.endpoint = "POST /api/emails/validate"
            /\ resp'.status = 200) =>
          /\ resp'.quotaDetails.local.used = Stored(daily_quota, today)
          /\ resp'.quotaDetails.local.limit = DailyLimit
          /\ resp'.canSend =>
                DailyLimit - Stored(daily_quota, today) >= resp'.requestedCount]_vars

\* the probe failed, the count fits the local quota exactly, and canSend is
\* true
C12_Witness ==
    /\ resp.endpoint = "POST /api/emails/validate" /\ resp.status = 200
    /\ resp.quotaDetails.aws = <<>>
    /\ resp.canSend
    /\ resp.quotaDetails.local.used > 0
    /\ resp.quotaDetails.local.remaining = resp.requestedCount

\* --------------------------------------------------------------------- C13
\* C13: when the provider probe fails, validateSendRequest reports no
\* AWS_QUOTA_EXCEEDED reason, includes the advisory warning, and its canSend
\* equals the local decision limit - used >= requested.
C13_ProbeFailureNonBlocking ==
    [][(resp' # resp /\ resp'.endpoint = "POST /api/emails/validate"
            /\ resp'.status = 200 /\ resp'.quotaDetails.aws = <<>>) =>
          /\ "AWS_QUOTA_EXCEEDED" \notin resp'.reasons
          /\ "AWS_UNVERIFIED" \in resp'.warnings
          /\ resp'.canSend <=>
                DailyLimit - Stored(daily_quota, today) >= resp'.requestedCount]_vars

\* the probe failed and the local quota alone refused the request
C13_Witness ==
    /\ resp.endpoint = "POST /api/emails/validate" /\ resp.status = 200
    /\ resp.quotaDetails.aws = <<>>
    /\ ~resp.canSend
    /\ resp.reasons = {"LOCAL_QUOTA_EXCEEDED"}
    /\ "AWS_UNVERIFIED" \in resp.warnings

\* --------------------------------------------------------------------- C14
\* C14: availableCount in the result of validateSendRequest is
\* min(local remaining, provider remaining) for every remaining capacity the
\* probe reports, 0 included, and the local remaining when the probe failed.
C14_EffectiveRemaining ==
    (resp.endpoint = "POST /api/emails/validate" /\ resp.status = 200) =>
        resp.availableCount =
            IF resp.quotaDetails.aws = <<>>
            THEN resp.quotaDetails.local.remaining
            ELSE Min(resp.quotaDetails.local.remaining, resp.quotaDetails.aws[1])

\* --------------------------------------------------------------------- C15
\* C15: when the local quota store throws while a send request is checked,
\* in quotaGuard or in reserveQuota, the request is rejected (500
\* QUOTA_CHECK_FAILED from the guard, 429 QUOTA_RESERVATION_FAILED from the
\* handler) and has caused no campaign row, no sent_emails row, no provider
\* send and no change of the counter.
C15_StoreFailureBlocks ==
    /\ [][\A r \in Requests :
             ( \/ req[r].pc = "idle" /\ req'[r].pc = "done"
               \/ hist[r] = "none" /\ hist'[r] = "threw" ) =>
                 /\ req'[r].pc = "done"
                 /\ req'[r].details = DbError
                 /\ <<req'[r].status, req'[r].error>> \in
                        {<<500, "QUOTA_CHECK_FAILED">>,
                         <<429, "QUOTA_RESERVATION_FAILED">>}
                 /\ daily_quota' = daily_quota
                 /\ campaigns' = campaigns
                 /\ sent_emails' = sent_emails
                 /\ sendsOn' = sendsOn
                 /\ log' = log]_vars
    /\ [](\A r \in Requests :
             (req[r].error = "QUOTA_CHECK_FAILED" \/ hist[r] = "threw") =>
                 /\ req[r].pc = "done"
                 /\ req[r].campaignId = 0
                 /\ log[r] = <<>>)

\* one request stopped in the guard and one at the reservation, both by the
\* store, and nothing was written
C15_Witness ==
    \E r1, r2 \in Requests :
        /\ req[r1].error = "QUOTA_CHECK_FAILED"
        /\ hist[r2] = "threw" /\ req[r2].error = "QUOTA_RESERVATION_FAILED"
        /\ daily_quota = <<>> /\ campaigns = 0 /\ sent_emails = <<>>

\* --------------------------------------------------------------------- C16
\* C16: when a request reserves for its M resolved contacts on a counter
\* that stands at u, GET /api/emails/quota reports local.used = u + M and
\* local.remaining = limit - u - M from then on, until the next reservation
\* or midnight: no step of the dispatch changes the report, whether the
\* provider calls succeed or fail, and no step ever lowers a counter.
C16_QuotaAfterSend ==
    /\ [][\A r \in Requests :
             (hist[r] = "none" /\ hist'[r] = "reserved") =>
                 \A p \in ProbeResults :
                     LET u == Stored(daily_quota, today')
                         M == Len(req'[r].contacts)
                     IN /\ (getQuotaStatus(today, p).local.used)' = u + M
                        /\ (getQuotaStatus(today, p).local.remaining)'
                               = DailyLimit - u - M]_vars
    /\ [][(today' = today /\ \A r \in Requests : hist'[r] = hist[r]) =>
             \A p \in ProbeResults :
                 (getQuotaStatus(today, p).local)' = getQuotaStatus(today, p).local]_vars
    /\ [][\A d \in Days :
             Stored(daily_quota', d) >= Stored(daily_quota, d)]_vars

\* two requests of one contact each reserved one after the other on the
\* default limit, every provider call failed, both were answered 200, and
\* the quota endpoint reports used 2, remaining 248
C16_Witness ==
    /\ \A r \in Requests :
          /\ hist[r] = "reserved"
          /\ req[r].status = 200
          /\ req[r].results = [totalRequested |-> 1, successful |-> 0, failed |-> 1]
    /\ reservedOn[today] = 2
    /\ getQuotaStatus(today, <<>>).local =
          [limit |-> DefaultDailyLimit, used |-> 2, remaining |-> DefaultDailyLimit - 2]

\* --------------------------------------------------------------------- C17
\* C17: two send requests with the same inputs (the same ids, all of which
\* resolve) that both reserved quota have, when both are over (no database
\* statement having thrown), each their own campaign, each one provider
\* call per contact, each M sent_emails rows, and the counters have risen
\* by 2M in total.
C17_NotIdempotent ==
    \A r1, r2 \in Requests :
        ( /\ r1 # r2
          /\ req[r1].pc = "done" /\ req[r2].pc = "done"
          /\ hist[r1] = "reserved" /\ hist[r2] = "reserved"
          /\ req[r1].details # DbError /\ req[r2].details # DbError
          /\ req[r1].contacts = req[r2].contacts
          /\ req[r1].requestedCount = Len(req[r1].contacts)
          /\ req[r2].requestedCount = Len(req[r2].contacts) ) =>
            /\ req[r1].campaignId > 0 /\ req[r2].campaignId > 0
            /\ req[r1].campaignId # req[r2].campaignId
            /\ \A r \in {r1, r2} :
                  /\ ContactsOf(log[r], {"call"}) = req[r].contacts
                  /\ Len(RowsOf(sent_emails, req[r].campaignId)) = Len(req[r].contacts)
            /\ TotalStored(daily_quota) = 2 * Len(req[r1].contacts)

\* --------------------------------------------------------------------- C18
\* C18: every tracking-pixel request the route has taken is answered
\* exactly once, with the fixed 1x1 GIF: from the handler's own step on,
\* through the queued recording and after it, whether the token is unknown,
\* the open is ignored as a pre-scan, suppressed as a duplicate, recorded,
\* or a database statement throws.
C18_PixelAlwaysOnce ==
    \A o \in OpenRequests :
        /\ opens[o].pc # "idle" => opens[o].answers = <<TRACKING_PIXEL>>
        /\ opens[o].pc = "done" =>
              opens[o].outcome \in
                  {"unknown", "prescan", "duplicate", "recorded", "error"}

\* a pre-scan, a recorded open and a duplicate of it, each answered once
C18_Witness ==
    \E o1, o2, o3 \in OpenRequests :
        /\ opens[o1].outcome = "prescan" /\ opens[o1].answers = <<TRACKING_PIXEL>>
        /\ opens[o2].outcome = "recorded" /\ opens[o2].answers = <<TRACKING_PIXEL>>
        /\ opens[o3].outcome = "duplicate" /\ opens[o3].answers = <<TRACKING_PIXEL>>
        /\ Cardinality(email_opens) = 1

\* --------------------------------------------------------------------- C19
\* C19: a request to a /api/contacts or /api/emails endpoint whose session
\* has no logged-in user (never logged in, login refused, or logged out) is
\* answered 401 UNAUTHORIZED in the step it arrives in, and changes no
\* contact, no counter, no campaign, no sent_emails row and starts no
\* provider send, then or later; contacts only change on the request of a
\* logged-in session.  Login, logout and the tracking pixel are served
\* whatever the sessions are.  (Requests here are those the rate limiter
\* passes on.)
C19_AuthRequired ==
    /\ [][\A r \in Requests :
             ( /\ req[r].pc = "idle" /\ req'[r].pc # "idle"
               /\ session[resp'.session].user = <<>> ) =>
                 /\ req'[r].pc = "done"
                 /\ req'[r].status = 401
                 /\ req'[r].error = "UNAUTHORIZED"
                 /\ UNCHANGED <<contacts, daily_quota, campaigns, sent_emails,
                                sendsOn, log, hist>>]_vars
    /\ [][( /\ resp' # resp
            /\ resp'.endpoint = "DELETE /api/contacts/:id"
            /\ session[resp'.session].user = <<>> ) =>
              /\ resp'.status = 401
              /\ resp'.error = "UNAUTHORIZED"
              /\ UNCHANGED <<contacts, daily_quota, campaigns, sent_emails,
                             sendsOn, log, hist>>]_vars
    /\ [][contacts' # contacts => session[resp'.session].user # <<>>]_vars
    /\ [](\A r \in Requests :
             req[r].status = 401 =>
                 /\ req[r].pc = "done"
                 /\ hist[r] = "none"
                 /\ log[r] = <<>>
                 /\ req[r].campaignId = 0)
    /\ [](\A s \in Sessions : ENABLED LoginSucceeds(s) /\ ENABLED Logout(s))
    /\ [](\A o \in 1..MaxAuthOpens :
             (opens[o].pc = "idle" /\ \A q \in 1..(o - 1) : opens[q].pc # "idle")
                 => ENABLED OpenArrives(o))
    /\ [][\A o \in OpenRequests :
             (opens[o].pc = "idle" /\ opens'[o].pc # "idle") =>
                 opens'[o].answers = <<TRACKING_PIXEL>>]_vars

\* a session that has logged out is refused its send request with 401
\* while the other session is logged in and has deleted contact 1; nothing
\* was reserved or sent, and the pixel was served
C19_Witness ==
    \E s1, s2 \in Sessions :
        /\ session[s1] = [user |-> <<>>, last |-> "logout"]
        /\ session[s2].user # <<>>
        /\ contacts = {2}
        /\ req[1].pc = "done" /\ req[1].status = 401
        /\ resp = Unauthorized("POST /api/emails/send", s1)
        /\ daily_quota = <<>> /\ campaigns = 0 /\ sent_emails = <<>>
        /\ opens[1].answers = <<TRACKING_PIXEL>>

\* --------------------------------------------------------------------- C20
\* C20: for every client ip, the requests of that ip which the rate limiter
\* has passed on to the routes within the last 60 seconds are at most 100
\* (so that no interval of 60 seconds holds more), and a request that is
\* not passed on is answered 429 RATE_LIMITED.
C20_RateLimit ==
    \A ip \in Clients :
        /\ SumOver({t \in RateInstants : now - t < windowMs}, passed[ip])
              <= maxRequests
        /\ resp.status # 0 => resp = [endpoint |-> "*", status |-> 429,
                                      error |-> "RATE_LIMITED"]

\* --------------------------------------------------------------------- C21
\* C21: personalizeContent(text, contact) is the text in which every
\* occurrence, in any letter case, of {first_name}, {last_name},
\* {company_name} and {email} is replaced in one simultaneous pass by the
\* literal value of the contact's field (the empty string when the field is
\* absent), and everything else, unrecognised placeholders included, is
\* left as it is.
C21_SimultaneousLiteral ==
    LET RECURSIVE OnePass(_, _, _)
        OnePass(text, i, contact) ==
            IF i > Len(text) THEN <<>>
            ELSE IF /\ i + 2 <= Len(text)
                    /\ text[i] = "{"
                    /\ ToLower(text[i + 1]) \in DOMAIN contact
                    /\ text[i + 2] = "}"
                 THEN (IF contact[ToLower(text[i + 1])] = <<>> THEN <<>>
                       ELSE contact[ToLower(text[i + 1])][1])
                      \o OnePass(text, i + 3, contact)
                 ELSE <<text[i]>> \o OnePass(text, i + 1, contact)
    IN personalize.sent # <<>> =>
           personalize.sent[1] = OnePass(personalize.text, 1, personalize.contact)

\* --------------------------------------------------------------------- C22
\* C22: when what personalizeContent returned holds none of the four
\* placeholders, personalizing it again for the same contact returns it
\* unchanged; and a text that holds none of the four placeholders is
\* returned unchanged.
C22_Idempotent ==
    /\ (personalize.again # <<>> /\ ~HasToken(personalize.sent[1]))
          => personalize.again[1] = personalize.sent[1]
    /\ (personalize.sent # <<>> /\ ~HasToken(personalize.text))
          => personalize.sent[1] = personalize.text

\* a text with a placeholder was personalized to a text without one, which is
\* not empty, and that was personalized again
C22_Witness ==
    /\ HasToken(personalize.text)
    /\ personalize.again # <<>>
    /\ personalize.sent[1] # <<>>
    /\ ~HasToken(personalize.sent[1])

\* --------------------------------------------------------------------- C30
\* C30: for every text and every contact, the live preview of the composer
\* (personalizeText) shows the text that personalizeContent makes for the
\* send.
C30_PreviewIsWhatIsSent ==
    (personalize.sent # <<>> /\ personalize.preview # <<>>)
        => personalize.preview = personalize.sent

\* --------------------------------------------------------------------- C23
\* C23: a send request that has made a provider send call has had its
\* reserveQuota succeed and its campaign row created, and has made no more
\* calls than the count it reserved; its reservation adds the whole count
\* to the daily counter in the step that takes it, before the first call,
\* and no other step adds anything to the counter (nothing is reserved in
\* part).
C23_SendsAfterReservation ==
    /\ [](\A r \in Requests :
            ContactsOf(log[r], {"call"}) # <<>> =>
                /\ hist[r] = "reserved"
                /\ req[r].campaignId \in 1..campaigns
                /\ Len(ContactsOf(log[r], {"call"})) <= Len(req[r].contacts))
    /\ [][\A r \in Requests :
            (hist[r] = "none" /\ hist'[r] = "reserved") =>
                /\ log[r] = <<>>
                /\ req'[r].contacts # <<>>
                /\ TotalStored(daily_quota') - TotalStored(daily_quota)
                       = Len(req'[r].contacts)]_vars
    /\ [][(\A r \in Requests : hist[r] = "none" => hist'[r] # "reserved")
             => daily_quota' = daily_quota]_vars

\* a request reserved for two contacts, called the provider for both and was
\* answered 200
C23_Witness ==
    \E r \in Requests :
        /\ hist[r] = "reserved"
        /\ req[r].pc = "done" /\ req[r].status = 200
        /\ Len(req[r].contacts) = 2
        /\ Len(ContactsOf(log[r], {"call"})) = 2

C25_NoDuplicateOpens ==
    /\ [](\A a \in email_opens, b \in email_opens :
            (/\ a # b
             /\ a.sent_email_id = b.sent_email_id
             /\ a.ip_address = b.ip_address
             /\ a.opened_at <= b.opened_at)
                => b.opened_at - a.opened_at >= DuplicateMinutes * MinuteMs)
    /\ [][\A o \in OpenRequests :
            (opens[o].pc = "queued" /\ opens'[o].pc = "done") =>
                IF \E i \in SentEmailOf(opens[o].trackingId), row \in email_opens :
                       /\ row.sent_email_id = i
                       /\ row.ip_address = opens[o].ip
                       /\ now - row.opened_at < DuplicateMinutes * MinuteMs
                THEN email_opens' = email_opens
                ELSE opens'[o].outcome = "recorded" =>
                        \E i \in SentEmailOf(opens[o].trackingId) :
                            email_opens' = email_opens \cup
                                {[sent_email_id |-> i, tracking_id |-> opens[o].trackingId,
                                  ip_address |-> opens[o].ip, opened_at |-> now]}]_vars

\* the same address opened the same email three times: the first open was
\* recorded, the second, less than 5 minutes later, was suppressed, and the
\* third, 5 minutes after the first, was recorded
C25_Witness ==
    /\ \E o \in OpenRequests : opens[o].outcome = "duplicate"
    /\ \E a \in email_opens, b \in email_opens :
          /\ a.sent_email_id = b.sent_email_id
          /\ a.ip_address = b.ip_address
          /\ b.opened_at - a.opened_at = DuplicateMinutes * MinuteMs

\* --------------------------------------------------------------------- C26
\* C26: a step changes a row of daily_quota only if it is the successful
\* reserveQuota of a request; the answers of /emails/validate and
\* /emails/quota, the steps of a request in quotaGuard (with the reads of
\* getDailyEmailCount, canSendEmails and validateSendRequest in them), and
\* a reserveQuota that is rejected or throws, all leave the table as it was.
C26_OnlyReserveQuotaWrites ==
    /\ [][daily_quota' # daily_quota =>
             \E r \in Requests : hist[r] = "none" /\ hist'[r] = "reserved"]_vars
    /\ [][resp' # resp => daily_quota' = daily_quota]_vars
    /\ [][\A r \in Requests :
            (/\ req[r].pc \in {"idle", "probe"}
             /\ req'[r] # req[r]
             /\ hist'[r] # "reserved") => daily_quota' = daily_quota]_vars
    /\ [][\A r \in Requests :
            (hist[r] = "none" /\ hist'[r] \in {"rejected", "threw"})
                => daily_quota' = daily_quota]_vars

\* one request reserved, the reserveQuota of the other was rejected, a quota
\* endpoint has answered 200, and the counter holds the one reservation
C26_Witness ==
    /\ resp.status = 200
    /\ \E r1, r2 \in Requests :
          /\ hist[r1] = "reserved"
          /\ hist[r2] = "rejected"
          /\ daily_quota = [d \in {1} |-> Len(req[r1].contacts)]

\* --------------------------------------------------------------------- C27
\* C27: a send request whose ids resolve to M >= 1 contacts is answered 429
\* for the local quota (by the guard or by the reservation, the provider's
\* capacity not being among the reasons, and the quota store not having
\* thrown) only if M is more than the local quota that remains, whatever the
\* number N of submitted ids is.
C27_DecisionOnResolvedCount ==
    [][\A r \in Requests :
          (/\ req[r].pc = "probe"
           /\ req'[r].pc = "done"
           /\ req'[r].status = 429
           /\ "AWS_QUOTA_EXCEEDED" \notin req'[r].reasons
           /\ hist'[r] # "threw"
           /\ Len(Resolve(req[r].contactIds)) >= 1) =>
              \/ Len(Resolve(req[r].contactIds)) > req[r].localRemaining
              \/ Len(Resolve(req[r].contactIds)) > DailyLimit - getDailyEmailCount(today)]_vars

\* --------------------------------------------------------------------- C28
\* C28: when a send request is over, with any response, what it added to
\* the daily counter (the count of its contacts if its reserveQuota
\* succeeded, nothing otherwise) is the number of sent_emails rows it wrote.
C28_QuotaMatchesRecords ==
    \A r \in Requests :
        req[r].pc = "done" =>
            (IF hist[r] = "reserved" THEN Len(req[r].contacts) ELSE 0)
                = Len(ContactsOf(log[r], {"record"}))

\* --------------------------------------------------------------------- C29
\* C29: the daily limit in the answers of /emails/validate (the limit of
\* validateSendRequest, and the limit of canSendEmails, which is the used and
\* the remaining count together) and of /emails/quota (getQuotaStatus) is
\* the configured DAILY_EMAIL_LIMIT for every setting that is a non-negative
\* integer, 0 included, and with a limit of 0 no send is admitted; it is the
\* default 250 when the setting is absent or not a number.
C29_ConfiguredLimit ==
    LET configured == IF DAILY_EMAIL_LIMIT = <<>> THEN DefaultDailyLimit
                      ELSE DAILY_EMAIL_LIMIT[1]
    IN /\ (resp.endpoint = "POST /api/emails/validate" /\ resp.status = 200) =>
              /\ resp.quotaDetails.local.limit = configured
              /\ resp.quotaDetails.local.used + resp.quotaDetails.local.remaining
                     = configured
              /\ configured = 0 => ~resp.canSend
       /\ (resp.endpoint = "GET /api/emails/quota" /\ resp.status = 200) =>
              /\ resp.quota.local.limit = configured
              /\ configured = 0 => ~resp.quota.canSend

====
